---- MODULE Spec2Model ----
(***************************************************************************)
(* Model of WikiData.run_all_parallel and WikiData._do_query               *)
(* (src/WikiData/__init__.py): the batch/retry runner over the temp/       *)
(* directory of <country><continent>.csv artifacts and .failed markers.    *)
(***************************************************************************)
EXTENDS Integers, Sequences, FiniteSets, TLC

\* ------------------------------------------------------------------ bounds
\* longest job list handed to the constructor
MaxJobs == 2
\* largest number of failing attempts of a job that later succeeds
MaxFails == 2
\* frames of run_all_parallel the interpreter stack holds (CPython: about 1000)
RecursionLimit == 4
\* longest job list of the partition specification
MaxN == 10

\* ------------------------------------------------- program constants
\* def run_all_parallel(self, batchsize: int = 250, timer: int = 60)
DefaultBatchsize == 250
DefaultTimer == 60

\* a caller's cooldown that differs from the default
CallerTimer == 30

\* marks a remote query that fails on every attempt
Forever == 0 - 1

\* ------------------------------------------------------------ jobs, keys
\* country_dict: the fields _do_query reads (labels carry no behaviour)
Job(c, k) == [country_codes |-> c, continent_codes |-> k]
JobA == Job("Q1", "Q2")
JobB == Job("Q11", "Q2")
JobUniverse == {JobA, JobB}

\* f'{country_dict["country_codes"]}{country_dict["continent_codes"]}'
Key(job) == job.country_codes \o job.continent_codes
Keys == {Key(j) : j \in JobUniverse}

VARIABLES
  country_codes,  \* self.country_codes: the job list of the current round
  jobs0,          \* the job list the top-level call was started with
  batchsize0,     \* batchsize argument of the top-level call
  timer0,         \* timer argument of the top-level call
  batchsize,      \* local batchsize of the current frame (after the clamp)
  timer,          \* local timer of the current frame
  lower, upper,   \* locals of the current frame
  bi,             \* position of the for loop in zip(lower, upper), 1-based
  procs,          \* the joblib.Parallel tasks of the running batch
  pc,             \* position of the runner
  err,            \* exception that left run_all_parallel, "none" otherwise
  depth,          \* frames of run_all_parallel on the stack
  rounds,         \* rounds started so far
  marker,         \* temp/<key>.failed: <<>> when absent, else <<pickled dict>>
  csv,            \* temp/<key>.csv: <<>> when absent, else its row groups
  fails,          \* remote client: failing attempts left per job, or Forever
  fails0,         \* the remote client's behaviour when the run started
  marker0, csv0,  \* temp/ when the run started
  attempts,       \* _do_query calls per job so far
  slept,          \* seconds of the last time.sleep of the runner
  populated,      \* self.country_codes is not None
  enum_queries,   \* enumeration queries sent to the remote service
  failed,         \* jobs with an attempt of the current round that returned 0
  results         \* row groups per job in the returned DataFrame

vars == <<country_codes, jobs0, batchsize0, timer0, batchsize, timer, lower,
          upper, bi, procs, pc, err, depth, rounds, marker, csv, fails,
          fails0, marker0, csv0, attempts, slept, populated, enum_queries,
          failed, results>>

\* what the run was started with: not assigned by run_all_parallel
start == <<jobs0, batchsize0, timer0, fails0, marker0, csv0, populated,
           enum_queries>>

\* ------------------------------------------------------- pure helpers
Min(a, b) == IF a < b THEN a ELSE b

\* list(range(0, stop, step)) for step # 0
PyRange(stop, step) ==
  IF step > 0 /\ stop > 0
    THEN [i \in 1..((stop + step - 1) \div step) |-> (i - 1) * step]
    ELSE <<>>

\* a clamp that leaves the batchsize as it was given
ClampNone(b, n) == b

\* a clamp that also replaces a non-positive batchsize
ClampPositive(b, n) == IF b > n \/ b < 1 THEN n ELSE b

\* the clamp of lines 103-106
Clamp(b, n) == IF b > n THEN n ELSE b

\* lower = [item for item in range(0, n, batchsize)]
Lower(n, b) == PyRange(n, b)

\* upper without the assignment upper[-1] = n
UpperNoFix(n, b) ==
  LET r == PyRange(n, b)
  IN  [i \in 1..Len(r) |-> r[i] + b]

\* upper = [item + batchsize for ...]; upper[-1] = n
Upper(n, b) ==
  LET r == PyRange(n, b)
  IN  [i \in 1..Len(r) |-> IF i = Len(r) THEN n ELSE r[i] + b]

\* seq[lo:hi] of Python, 0 <= lo
Slice(seq, lo, hi) == SubSeq(seq, lo + 1, Min(hi, Len(seq)))

\* zip(lower, upper) and the slices self.country_codes[batch[0]:batch[1]]
Batches(cc, lo, up) ==
  [i \in 1..Min(Len(lo), Len(up)) |-> Slice(cc, lo[i], up[i])]

Range(seq) == {seq[i] : i \in DOMAIN seq}

Count(seq, x) == Cardinality({i \in DOMAIN seq : seq[i] = x})

RECURSIVE SumCount(_, _, _)
SumCount(files, ks, x) ==
  IF ks = {} THEN 0
  ELSE LET k == CHOOSE y \in ks : TRUE
       IN  Count(files[k], x) + SumCount(files, ks \ {k}, x)

\* glob('temp/*.failed') / glob('temp/*.csv'): the keys that have a file
Glob(files) == {k \in Keys : files[k] # <<>>}

\* all orders in which glob may list a set of files
Perms(S) ==
  {s \in [1..Cardinality(S) -> S] : \A i, j \in DOMAIN s : i # j => s[i] # s[j]}

\* a retry list that is the whole current job list again
NewBatchAppend(files, order) ==
  country_codes \o [i \in DOMAIN order |-> files[order[i]][1]]
NewBatchAll(files, order) == country_codes

\* new_batch = [joblib.load(item) for item in glob('temp/*.failed')]
NewBatch(files, order) == [i \in DOMAIN order |-> files[order[i]][1]]

\* pd.concat of pd.read_csv over glob("temp/*.csv"), as row groups per job
Concat(files) == [j \in JobUniverse |-> SumCount(files, Glob(files), j)]

\* a to_csv that appends to the file
ToCsvTruncate(files, job) == [files EXCEPT ![Key(job)] = <<>>]
ToCsvAppend(files, job) == [files EXCEPT ![Key(job)] = Append(@, job)]

\* df.to_csv(path): the file is replaced
ToCsv(files, job) == [files EXCEPT ![Key(job)] = <<job>>]

\* a dump that writes nothing
DumpLost(files, job) == files

\* joblib.dump(country_dict, path): the marker is replaced
Dump(files, job) == [files EXCEPT ![Key(job)] = <<job>>]

\* an existence test that never sees the file
ExistsNever(files, job) == FALSE

\* os.path.exists(path)
Exists(files, job) == files[Key(job)] # <<>>

\* a remove that leaves the file
RemoveKept(files, job) == files

\* os.remove(path)
Remove(files, job) == [files EXCEPT ![Key(job)] = <<>>]

\* remote query of a job: TRUE when this attempt raises
QueryRaises(job) == fails[job] # 0

Spent(job) ==
  IF fails[job] > 0 THEN [fails EXCEPT ![job] = @ - 1] ELSE fails

\* a pool that hands back control before its tasks have returned
AllDoneEarly == TRUE

\* joblib.Parallel(...)(...) returns when every task has returned
AllDone == \A i \in DOMAIN procs : procs[i].pc = "done"

\* ------------------------------------------------------------ initial states
JobLists == UNION {[1..n -> JobUniverse] : n \in 0..MaxJobs}

Budgets == (0..MaxFails) \cup {Forever}

Files == [Keys -> {<<>>} \cup {<<j>> : j \in JobUniverse}]

\* files left in temp/ by earlier runs carry the dict of their own key
Stale(files) == \A j \in JobUniverse : files[Key(j)] \in {<<>>, <<j>>}

\* an object after __init__, with a call of one of its methods pending
InitAt(entry) ==
  /\ populated \in BOOLEAN
  /\ enum_queries = 0
  /\ failed = {}
  /\ jobs0 \in JobLists
  /\ ~populated => jobs0 = <<>>
  /\ country_codes = jobs0
  /\ batchsize0 \in (0 - 1)..(MaxJobs + 1)
  /\ batchsize = batchsize0
  /\ timer0 = CallerTimer
  /\ timer = timer0
  /\ lower = <<>>
  /\ upper = <<>>
  /\ bi = 0
  /\ procs = <<>>
  /\ pc = entry
  /\ err = "none"
  /\ depth = 1
  /\ rounds = 1
  /\ marker \in Files
  /\ Stale(marker)
  /\ csv \in Files
  /\ Stale(csv)
  /\ fails \in [JobUniverse -> Budgets]
  /\ \A j \in JobUniverse :
       (populated /\ j \notin Range(jobs0) /\ marker[Key(j)] = <<>>)
         => fails[j] = 0
  /\ fails0 = fails
  /\ marker0 = marker
  /\ csv0 = csv
  /\ attempts = [j \in JobUniverse |-> 0]
  /\ slept = 0
  /\ results = [j \in JobUniverse |-> 0]

\* run_all_parallel is called on the object
Init == InitAt("call")

\* ------------------------------------------------------------ the runner
\* lines 103-110: clamp, lower, upper
Call ==
  /\ pc = "call"
  /\ LET n == Len(country_codes)
         b == Clamp(batchsize, n)
     IN  /\ batchsize' = IF populated THEN b ELSE batchsize
         /\ IF ~populated
              THEN \* len(None) at line 103
                   /\ pc' = "raised"
                   /\ err' = "TypeError"
                   /\ UNCHANGED <<lower, upper, bi>>
              ELSE IF b = 0
              THEN \* range() arg 3 must not be zero
                   /\ pc' = "raised"
                   /\ err' = "ValueError"
                   /\ UNCHANGED <<lower, upper, bi>>
              ELSE IF Lower(n, b) = <<>>
                THEN \* upper[-1] of an empty list
                     /\ pc' = "raised"
                     /\ err' = "IndexError"
                     /\ lower' = <<>>
                     /\ upper' = <<>>
                     /\ UNCHANGED bi
                ELSE /\ lower' = Lower(n, b)
                     /\ upper' = Upper(n, b)
                     /\ bi' = 1
                     /\ pc' = "batch"
                     /\ UNCHANGED err
  /\ UNCHANGED <<start, country_codes, timer, procs, depth, rounds, marker,
                 csv, fails, attempts, slept, failed, results>>

\* lines 111-116: the next batch is handed to joblib.Parallel(n_jobs=batchsize)
StartBatch ==
  /\ pc = "batch"
  /\ LET jobs == Batches(country_codes, lower, upper)[bi]
     IN  /\ procs' = [i \in DOMAIN jobs |->
                        [job |-> jobs[i], pc |-> "query", ret |-> 0 - 1]]
         /\ attempts' = [j \in JobUniverse |-> attempts[j] + Count(jobs, j)]
  /\ pc' = "join"
  /\ UNCHANGED <<start, country_codes, batchsize, timer,
                 lower, upper, bi, err, depth, rounds, marker, csv, fails,
                 slept, failed, results>>

\* lines 72-82 of _do_query: the query answers and the artifact is written
QueryOk(i) ==
  /\ pc = "join"
  /\ i \in DOMAIN procs
  /\ procs[i].pc = "query"
  /\ ~QueryRaises(procs[i].job)
  /\ csv' = ToCsv(csv, procs[i].job)
  /\ procs' = [procs EXCEPT ![i].pc = "exists"]
  /\ UNCHANGED <<start, country_codes, batchsize, timer,
                 lower, upper, bi, pc, err, depth, rounds, marker, fails,
                 attempts, slept, failed, results>>

\* lines 72-77 raise, lines 90-94: the marker is written, 0 is returned
QueryFail(i) ==
  /\ pc = "join"
  /\ i \in DOMAIN procs
  /\ procs[i].pc = "query"
  /\ QueryRaises(procs[i].job)
  /\ fails' = Spent(procs[i].job)
  /\ marker' = Dump(marker, procs[i].job)
  /\ procs' = [procs EXCEPT ![i].pc = "done", ![i].ret = 0]
  /\ failed' = failed \cup {procs[i].job}
  /\ UNCHANGED <<start, country_codes, batchsize, timer,
                 lower, upper, bi, pc, err, depth, rounds, csv, attempts,
                 slept, results>>

\* line 84: os.path.exists of the marker; line 88 when there is none
CheckMarker(i) ==
  /\ pc = "join"
  /\ i \in DOMAIN procs
  /\ procs[i].pc = "exists"
  /\ IF Exists(marker, procs[i].job)
       THEN procs' = [procs EXCEPT ![i].pc = "remove"]
       ELSE procs' = [procs EXCEPT ![i].pc = "done", ![i].ret = 1]
  /\ UNCHANGED <<start, country_codes, batchsize, timer,
                 lower, upper, bi, pc, err, depth, rounds, marker, csv, fails,
                 attempts, slept, failed, results>>

\* line 85: os.remove of the marker, line 88; FileNotFoundError when another
\* task removed it first, caught at line 90: the marker is written, 0 returned
RemoveMarker(i) ==
  /\ pc = "join"
  /\ i \in DOMAIN procs
  /\ procs[i].pc = "remove"
  /\ IF Exists(marker, procs[i].job)
       THEN /\ marker' = Remove(marker, procs[i].job)
            /\ procs' = [procs EXCEPT ![i].pc = "done", ![i].ret = 1]
            /\ UNCHANGED failed
       ELSE /\ marker' = Dump(marker, procs[i].job)
            /\ procs' = [procs EXCEPT ![i].pc = "done", ![i].ret = 0]
            /\ failed' = failed \cup {procs[i].job}
  /\ UNCHANGED <<start, country_codes, batchsize, timer,
                 lower, upper, bi, pc, err, depth, rounds, csv, fails,
                 attempts, slept, results>>

\* line 114 returns once every task has returned; line 117
Join ==
  /\ pc = "join"
  /\ AllDone
  /\ pc' = "sleep"
  /\ UNCHANGED <<start, country_codes, batchsize, timer,
                 lower, upper, bi, procs, err, depth, rounds, marker, csv,
                 fails, attempts, slept, failed, results>>

\* lines 118-119: time.sleep(timer), then the next batch or the scan
Sleep ==
  /\ pc = "sleep"
  /\ slept' = timer
  /\ procs' = <<>>
  /\ IF bi < Min(Len(lower), Len(upper))
       THEN /\ bi' = bi + 1
            /\ pc' = "batch"
       ELSE /\ bi' = bi
            /\ pc' = "scan"
  /\ UNCHANGED <<start, country_codes, batchsize, timer,
                 lower, upper, err, depth, rounds, marker, csv, fails,
                 attempts, failed, results>>

\* the arguments of the recursive call of line 124: self.run_all_parallel()
RetryBatchsize == DefaultBatchsize
RetryTimer == DefaultTimer

\* lines 121-126: the marker scan; a non-empty scan recurses
Scan ==
  /\ pc = "scan"
  /\ IF Glob(marker) = {}
       THEN /\ pc' = "aggregate"
            /\ UNCHANGED <<country_codes, batchsize, timer, depth, rounds, err,
                           failed>>
       ELSE \E order \in Perms(Glob(marker)) :
              /\ country_codes' = NewBatch(marker, order)
              /\ IF depth + 1 > RecursionLimit
                   THEN /\ pc' = "raised"
                        /\ err' = "RecursionError"
                        /\ UNCHANGED <<batchsize, timer, depth, rounds, failed>>
                   ELSE /\ pc' = "call"
                        /\ batchsize' = RetryBatchsize
                        /\ timer' = RetryTimer
                        /\ depth' = depth + 1
                        /\ rounds' = rounds + 1
                        /\ failed' = {}
                        /\ UNCHANGED err
  /\ UNCHANGED <<start, lower, upper, bi, procs, marker,
                 csv, fails, attempts, slept, results>>

\* lines 128-133 of the frame on top of the stack; its caller resumes at 128
Aggregate ==
  /\ pc = "aggregate"
  /\ IF Glob(csv) = {}
       THEN \* pd.concat of an empty list
            /\ pc' = "raised"
            /\ err' = "ValueError"
            /\ UNCHANGED <<results, depth>>
       ELSE /\ results' = Concat(csv)
            /\ depth' = depth - 1
            /\ pc' = IF depth = 1 THEN "returned" ELSE "aggregate"
            /\ UNCHANGED err
  /\ UNCHANGED <<start, country_codes, batchsize, timer,
                 lower, upper, bi, procs, rounds, marker, csv, fails,
                 attempts, slept, failed>>

Next ==
  \/ Call
  \/ StartBatch
  \/ \E i \in DOMAIN procs : QueryOk(i)
  \/ \E i \in DOMAIN procs : QueryFail(i)
  \/ \E i \in DOMAIN procs : CheckMarker(i)
  \/ \E i \in DOMAIN procs : RemoveMarker(i)
  \/ Join
  \/ Sleep
  \/ Scan
  \/ Aggregate

Spec == Init /\ [][Next]_vars

\* runs against a remote service that ends up answering every job, started
\* with no artifact in temp/ (markers of earlier runs may be there)
FairInit ==
  /\ Init
  /\ \A j \in JobUniverse : fails[j] # Forever
  /\ \A k \in Keys : csv[k] = <<>>

\* the runner and the pool's tasks keep running: every enabled step is taken
FairSpec == FairInit /\ [][Next]_vars /\ WF_vars(Next)

\* ------------------------------------------------ the enumeration first
\* a test of line 29 that takes every object for a new one
UnpopulatedAlways == TRUE

\* line 29: self.country_codes is None
Unpopulated == ~populated

\* what the enumeration query can answer: any non-empty list of records, one
\* per binding of the SELECT (line 30, no DISTINCT; lines 41-49, no
\* drop_duplicates)
Enumerations == JobLists \ {<<>>}

\* lines 29-53 of get_continents_and_countries
Enumerate ==
  /\ pc = "enum"
  /\ IF Unpopulated
       THEN /\ enum_queries' = enum_queries + 1
            /\ \/ \* line 40 (or 41-43 on an empty answer) raises
                  /\ pc' = "raised"
                  /\ err' = "QueryError"
                  /\ UNCHANGED <<country_codes, jobs0, populated>>
               \/ \* lines 48-51
                  \E answer \in Enumerations :
                    /\ country_codes' = answer
                    /\ jobs0' = answer
                    /\ populated' = TRUE
                    /\ pc' = "call"
                    /\ UNCHANGED err
       ELSE \* line 53: exit(1)
            /\ pc' = "exited"
            /\ UNCHANGED <<country_codes, jobs0, populated, enum_queries, err>>
  /\ UNCHANGED <<batchsize0, timer0, fails0, marker0, csv0, batchsize, timer,
                 lower, upper, bi, procs, depth, rounds, marker, csv, fails,
                 attempts, slept, failed, results>>

\* get_continents_and_countries is called on the object, run_all_parallel
\* after it
EnumInit == InitAt("enum")

EnumNext == Enumerate \/ Next

EnumSpec == EnumInit /\ [][EnumNext]_vars

\* ------------------------------------------------ a stop and a new start
\* the process stops in the middle of a run (its pool with it) and a new
\* process constructs the object with the same job list (lines 14-21) and
\* calls run_all_parallel with the same arguments; temp/ is what was left
Restart ==
  /\ pc \in {"batch", "join", "sleep", "scan"}
  /\ country_codes' = jobs0
  /\ batchsize' = batchsize0
  /\ timer' = timer0
  /\ lower' = <<>>
  /\ upper' = <<>>
  /\ bi' = 0
  /\ procs' = <<>>
  /\ pc' = "call"
  /\ depth' = 1
  /\ rounds' = 1
  /\ fails0' = fails
  /\ marker0' = marker
  /\ csv0' = csv
  /\ attempts' = [j \in JobUniverse |-> 0]
  /\ slept' = 0
  /\ failed' = {}
  /\ UNCHANGED <<jobs0, batchsize0, timer0, populated, enum_queries, err,
                 marker, csv, fails, results>>

\* the first process starts on an empty temp/
RestartInit ==
  /\ Init
  /\ \A k \in Keys : marker[k] = <<>> /\ csv[k] = <<>>

RestartNext == Restart \/ Next

RestartSpec == RestartInit /\ [][RestartNext]_vars

TypeOK ==
  /\ pc \in {"call", "batch", "join", "sleep", "scan", "aggregate",
             "returned", "raised"}
  /\ depth \in 0..RecursionLimit

\* --------------------------------------------- the partition, on its own
\* job lists of every length up to MaxN and batch sizes around them; the
\* sizes 100 and 250 stand for a batchsize far above the number of jobs
PartBatchsizes == ((0 - 1)..(MaxN + 2)) \cup {100, DefaultBatchsize}

PartInit ==
  /\ populated = TRUE
  /\ enum_queries = 0
  /\ failed = {}
  /\ jobs0 \in {[i \in 1..n |-> JobA] : n \in 0..MaxN}
  /\ country_codes = jobs0
  /\ batchsize0 \in PartBatchsizes
  /\ batchsize = batchsize0
  /\ timer0 = CallerTimer
  /\ timer = timer0
  /\ lower = <<>>
  /\ upper = <<>>
  /\ bi = 0
  /\ procs = <<>>
  /\ pc = "call"
  /\ err = "none"
  /\ depth = 1
  /\ rounds = 1
  /\ marker = [k \in Keys |-> <<>>]
  /\ csv = [k \in Keys |-> <<>>]
  /\ fails = [j \in JobUniverse |-> 0]
  /\ fails0 = fails
  /\ marker0 = marker
  /\ csv0 = csv
  /\ attempts = [j \in JobUniverse |-> 0]
  /\ slept = 0
  /\ results = [j \in JobUniverse |-> 0]

PartNext == Call

PartSpec == PartInit /\ [][PartNext]_vars

\* ------------------------------------------------------------------ claims
NoMarkers == \A k \in Keys : marker[k] = <<>>

HasArtifact(job) == csv[Key(job)] # <<>>

HasMarker(job) == marker[Key(job)] # <<>>

\* C1: when the top-level run_all_parallel has returned, every job of the
\* list it was started with has its temp/<country><continent>.csv and none
\* of them has a .failed marker.
C1_ReturnedMeansAllDone ==
  pc = "returned" =>
    \A j \in Range(jobs0) : HasArtifact(j) /\ ~HasMarker(j)

\* a run that needed a retry round has returned
C1_Witness ==
  /\ pc = "returned"
  /\ rounds >= 2
  /\ Len(jobs0) = 2
  /\ \E j \in Range(jobs0) : fails0[j] > 0 /\ csv0[Key(j)] = <<>>

\* the configuration C2 is about: a runnable call and a remote service that
\* fails every job finitely often
C2_Premise ==
  /\ pc = "call"
  /\ depth = 1
  /\ rounds = 1
  /\ Len(jobs0) >= 1
  /\ batchsize0 >= 1
  /\ \A j \in JobUniverse : fails0[j] # Forever

C2_Converged ==
  /\ pc = "returned"
  /\ NoMarkers
  /\ \A j \in Range(jobs0) : results[j] >= 1

C3_SameConfiguration ==
  (rounds >= 2 /\ pc \in {"batch", "join", "sleep"}) =>
    /\ timer = timer0
    /\ batchsize = Clamp(batchsize0, Len(country_codes))

\* indices of the job list that batch i of the round covers
BatchIndices(i) ==
  {x \in 0..(Len(country_codes) - 1) : lower[i] <= x /\ x < upper[i]}

CeilDiv(n, b) == (n + b - 1) \div b

Partitioned ==
  pc = "batch" /\ Len(country_codes) >= 1
    /\ 1 <= batchsize0 /\ batchsize0 <= Len(country_codes)

\* C4: for n >= 1 jobs and 1 <= batchsize <= n the round has ceil(n/batchsize)
\* contiguous batches [0:b],[b:2b],...,[kb:n] in list order, all of batchsize
\* jobs but the last, and every job index is in exactly one batch; n = 10 and
\* batchsize = 4 give [0:4],[4:8],[8:10].
C4_Partition ==
  Partitioned =>
    LET n == Len(country_codes)
        b == batchsize0
        bs == Batches(country_codes, lower, upper)
    IN  /\ Len(bs) = CeilDiv(n, b)
        /\ \A i \in DOMAIN bs :
             /\ lower[i] = (i - 1) * b
             /\ upper[i] = Min(i * b, n)
             /\ bs[i] = SubSeq(country_codes, lower[i] + 1, upper[i])
             /\ i < Len(bs) => Len(bs[i]) = b
             /\ i = Len(bs) => Len(bs[i]) = n - (Len(bs) - 1) * b
        /\ \A x \in 0..(n - 1) :
             Cardinality({i \in DOMAIN bs : x \in BatchIndices(i)}) = 1
        /\ (n = 10 /\ b = 4) =>
             lower = <<0, 4, 8>> /\ upper = <<4, 8, 10>>

\* ten jobs were split with batchsize 4
C4_Witness ==
  /\ Partitioned
  /\ Len(country_codes) = 10
  /\ batchsize0 = 4
  /\ Len(lower) = 3

\* C5: a batchsize above the number n >= 1 of jobs becomes n, and the round is
\* one batch of all n jobs.
C5_Clamp ==
  (pc = "batch" /\ Len(country_codes) >= 1 /\ batchsize0 > Len(country_codes)) =>
    /\ batchsize = Len(country_codes)
    /\ Batches(country_codes, lower, upper) = <<country_codes>>

\* batchsize 100 with five jobs
C5_Witness ==
  /\ pc = "batch"
  /\ Len(country_codes) = 5
  /\ batchsize0 = 100
  /\ batchsize = 5

\* task i returns 1 in this step: its commit (lines 81-88) is complete
CommitCompletes(i) ==
  /\ procs[i].pc # "done"
  /\ i \in DOMAIN procs'
  /\ procs'[i].pc = "done"
  /\ procs'[i].ret = 1

\* C6: at the moment a commit for an identity is complete (artifact written,
\* marker test and removal done) no marker of that identity exists, whatever
\* other task of the same identity wrote a marker before the removal.
C6_CommitClearsMarker ==
  [][\A i \in DOMAIN procs :
       CommitCompletes(i) => marker'[Key(procs[i].job)] = <<>>]_vars

\* two tasks of one identity ran in one batch: one failed and wrote the
\* marker, the other committed afterwards and removed it
C6_Witness ==
  \E i, j \in DOMAIN procs :
    /\ i # j
    /\ Key(procs[i].job) = Key(procs[j].job)
    /\ procs[i].pc = "done" /\ procs[i].ret = 0
    /\ procs[j].pc = "done" /\ procs[j].ret = 1
    /\ marker0[Key(procs[j].job)] = <<>>
    /\ ~HasMarker(procs[j].job)

\* C7: however often an identity is committed, its artifact holds one row
\* group, and the returned aggregate holds every artifact, hence every job,
\* exactly once.
C7_Idempotent ==
  /\ \A j \in JobUniverse : Count(csv[Key(j)], j) <= 1 /\ Len(csv[Key(j)]) <= 1
  /\ pc = "returned" =>
       /\ \A j \in JobUniverse : results[j] = IF HasArtifact(j) THEN 1 ELSE 0
       /\ \A j \in Range(jobs0) : results[j] = 1

\* a job committed at least twice (it never failed and was attempted twice or
\* more, or overwrote an artifact of an earlier run) and is once in the result
C7_Witness ==
  /\ pc = "returned"
  /\ \E j \in Range(jobs0) :
       /\ fails0[j] = 0
       /\ attempts[j] >= 2
       /\ csv0[Key(j)] # <<>>
       /\ results[j] = 1

\* jobs = {A: always succeeds, B: fails once then succeeds}, empty temp/
C8_Scenario ==
  /\ Len(jobs0) = 2
  /\ Range(jobs0) = {JobA, JobB}
  /\ fails0[JobA] = 0
  /\ fails0[JobB] = 1
  /\ \A k \in Keys : marker0[k] = <<>> /\ csv0[k] = <<>>
  /\ batchsize0 >= 1

\* C8: in that scenario the run has exactly two rounds: round 1 attempts A and
\* B and leaves A's artifact and B's marker, round 2 attempts only B, and the
\* returned aggregate holds A and B once each with no marker left.
C8_EndToEnd ==
  C8_Scenario =>
    /\ pc # "raised"
    /\ rounds <= 2
    /\ attempts[JobA] <= 1
    /\ attempts[JobB] <= 2
    /\ (pc = "scan" /\ rounds = 1) =>
         /\ HasArtifact(JobA) /\ ~HasMarker(JobA)
         /\ HasMarker(JobB) /\ ~HasArtifact(JobB)
         /\ attempts[JobA] = 1 /\ attempts[JobB] = 1
    /\ rounds = 2 =>
         /\ country_codes = <<JobB>>
         /\ HasArtifact(JobA) /\ ~HasMarker(JobA)
    /\ pc = "returned" =>
         /\ rounds = 2
         /\ attempts[JobA] = 1 /\ attempts[JobB] = 2
         /\ NoMarkers
         /\ results[JobA] = 1 /\ results[JobB] = 1

\* the scenario has run to its end
C8_Witness == C8_Scenario /\ pc = "returned" /\ batchsize0 = 1

\* C9: with a job that fails on every attempt the run never returns and never
\* raises: it keeps starting rounds.
C9_NeverGivesUp ==
  (batchsize0 >= 1 /\ \E j \in Range(jobs0) : fails0[j] = Forever) =>
    pc # "returned" /\ pc # "raised"

\* C10: a call with batchsize <= 0 leaves run_all_parallel by an exception
\* before any batch: no job is attempted and temp/ is as it was.
C10_NonPositiveBatchsize ==
  batchsize0 <= 0 =>
    /\ pc \in {"call", "raised"}
    /\ pc = "raised" => err \in {"TypeError", "ValueError", "IndexError"}
    /\ procs = <<>>
    /\ \A j \in JobUniverse : attempts[j] = 0
    /\ marker = marker0
    /\ csv = csv0

\* a call with a negative batchsize over a non-empty job list has raised
C10_Witness ==
  /\ batchsize0 < 0
  /\ Len(jobs0) >= 1
  /\ pc = "raised"
  /\ \E k \in Keys : marker0[k] # <<>>

\* C11: get_continents_and_countries on an object whose job list is populated
\* ends the process: the job list stays as it is, the remote service is not
\* queried, and nothing runs afterwards, so no batch and no change of temp/.
C11_EnumerationOnPopulated ==
  [][/\ pc # "exited"
     /\ (pc = "enum" /\ populated) =>
          /\ pc' = "exited"
          /\ country_codes' = country_codes
          /\ populated'
          /\ enum_queries' = 0
          /\ procs' = <<>>
          /\ attempts' = [j \in JobUniverse |-> 0]
          /\ marker' = marker0
          /\ csv' = csv0]_vars

\* the enumeration was asked of an object constructed with a job list
C11_Witness ==
  /\ pc = "exited"
  /\ Len(country_codes) >= 1
  /\ enum_queries = 0

\* task i returns in this step
Completes(i) ==
  /\ procs[i].pc # "done"
  /\ i \in DOMAIN procs'
  /\ procs'[i].pc = "done"

\* C12: every attempt ends as a success (artifact of its key written, flag 1)
\* or as a failure (marker of its key written, flag 0); a failure never takes
\* the runner out of its batch, and a job whose attempt failed and left its
\* marker is a job of the round that the scan starts next.
C12_FailureAbsorbed ==
  [][/\ \A i \in DOMAIN procs :
          Completes(i) =>
            \/ procs'[i].ret = 1 /\ csv'[Key(procs[i].job)] = <<procs[i].job>>
            \/ procs'[i].ret = 0 /\ marker'[Key(procs[i].job)] = <<procs[i].job>>
     /\ pc = "join" => pc' \in {"join", "sleep"}
     /\ pc = "scan" =>
          \A j \in failed :
            marker[Key(j)] # <<>> =>
              pc' = "call" /\ j \in Range(country_codes')]_vars

\* tasks of the pool that have not returned yet
Running == {i \in DOMAIN procs : procs[i].pc # "done"}

\* C13: in every round the number of attempts running at once is at most the
\* batchsize given to the top-level call.
C13_BoundedParallelism ==
  batchsize0 >= 1 =>
    Cardinality(Running) <= batchsize0 /\ Len(procs) <= batchsize0

\* a task of a new batch starts in this step
TaskStarts ==
  \E i \in DOMAIN procs' :
    procs'[i].pc = "query" /\ (i \notin DOMAIN procs \/ procs[i].pc # "query")

\* C14: the tasks of a batch start only when every task of the batch before
\* (of this round or of the round before) has returned and the sleep after
\* that batch is over; tasks of two batches are never in flight together.
C14_SequentialBatches ==
  /\ [](Running # {} => pc = "join")
  /\ [](pc = "sleep" => \A i \in DOMAIN procs : procs[i].pc = "done")
  /\ [][/\ TaskStarts => (pc = "batch" /\ procs = <<>>)
        /\ pc' = "batch" =>
             \/ pc = "call"
             \/ pc = "sleep" /\ slept' = timer
        /\ pc' = "scan" => pc = "sleep" /\ slept' = timer
        /\ (pc' = "call" /\ pc # "enum") => pc = "scan"]_vars

\* the second batch of a round is running, after the first returned and the
\* runner slept
C14_Witness ==
  /\ pc = "join"
  /\ bi = 2
  /\ Running # {}
  /\ slept = timer0

\* C15: when the marker scan begins no commit or marking of the round is in
\* progress, and every job of the round has its marker written, or its
\* artifact written and its marker removed.
C15_ScanAfterCommits ==
  pc = "scan" =>
    /\ Running = {}
    /\ \A i \in DOMAIN procs : procs[i].pc = "done"
    /\ \A j \in Range(country_codes) :
         \/ marker[Key(j)] = <<j>>
         \/ csv[Key(j)] = <<j>> /\ marker[Key(j)] = <<>>

\* a scan that finds one job of the round committed and another one marked
C15_Witness ==
  /\ pc = "scan"
  /\ \E j, k \in Range(country_codes) :
       /\ marker[Key(j)] # <<>>
       /\ marker0[Key(j)] = <<>>
       /\ marker[Key(k)] = <<>>
       /\ csv[Key(k)] # <<>>
       /\ csv0[Key(k)] = <<>>

\* the jobs stored in the markers of temp/
MarkedJobs == {marker[k][1] : k \in {x \in Keys : marker[x] # <<>>}}

\* C16: after the batches of a round the runner goes on to the aggregation
\* exactly when temp/ holds no marker; otherwise the job list of the next
\* round is the jobs of the markers found in temp/, each once.
C16_RetrySetFromMarkers ==
  [][pc = "scan" =>
       /\ (pc' = "aggregate") <=> (MarkedJobs = {})
       /\ MarkedJobs # {} =>
            /\ Range(country_codes') = MarkedJobs
            /\ Len(country_codes') = Cardinality(MarkedJobs)
            /\ rounds < RecursionLimit => pc' = "call" /\ rounds' = rounds + 1]_vars

\* a retry round runs a job that only a marker left in temp/ names, and not a
\* job of the list that was committed
C16_Witness ==
  /\ pc = "batch"
  /\ rounds = 2
  /\ \E j \in Range(country_codes) : j \notin Range(jobs0)
  /\ \E j \in Range(jobs0) : j \notin Range(country_codes)

\* C17: after a stop in the middle of a round and a new start on the same
\* temp/ with the original job list, the jobs of the markers that the stopped
\* process left are attempted again, and the run returns only when every job
\* has its artifact and temp/ holds no marker.
C17_ReentryAfterRestart ==
  pc = "returned" =>
    /\ \A j \in Range(jobs0) : csv[Key(j)] # <<>>
    /\ \A k \in Keys : marker[k] = <<>>
    /\ \A j \in JobUniverse : marker0[Key(j)] # <<>> => attempts[j] >= 1

\* a run returned that was started on markers left by a stopped process, with
\* a retry round of its own
C17_Witness ==
  /\ pc = "returned"
  /\ \E k \in Keys : marker0[k] # <<>>
  /\ rounds >= 2

\* the job list of a retry round, read from the marker files, holds each job
\* once
RetrySetUnique ==
  rounds >= 2 =>
    \A i, j \in DOMAIN country_codes :
      i # j => country_codes[i] # country_codes[j]

\* C18: in every batch of every round, the first round included, no two
\* attempts of the batch have the same identity (the same key in temp/), and
\* the job list of a retry round holds each job once.
C18_UniquePerBatch ==
  /\ \A i, j \in DOMAIN procs :
       i # j => Key(procs[i].job) # Key(procs[j].job)
  /\ RetrySetUnique

\* C19: no step of the runner removes an artifact: the keys that have an
\* artifact only grow, and an attempt that ends as a failure writes the marker
\* of its key and leaves every artifact, the one of its own key included, as
\* it was.
C19_ArtifactsNeverDeleted ==
  [][/\ \A k \in Keys : csv[k] # <<>> => csv'[k] # <<>>
     /\ \A i \in DOMAIN procs :
          (Completes(i) /\ procs'[i].ret = 0) =>
             /\ marker'[Key(procs[i].job)] # <<>>
             /\ csv' = csv]_vars

\* a job that had its artifact and no marker at the start was attempted again
\* and failed: the marker is there and the artifact still is
C19_Witness ==
  \E j \in Range(jobs0) :
    /\ csv0[Key(j)] # <<>>
    /\ marker0[Key(j)] = <<>>
    /\ attempts[j] >= 1
    /\ marker[Key(j)] # <<>>
    /\ csv[Key(j)] # <<>>

\* temp/ held no marker when the run started
StartedClean == \A k \in Keys : marker0[k] = <<>>

\* C20: when the run starts on a temp/ without markers, the job list of every
\* retry round is a subset of the job list of the round before it and is not
\* longer, and no job outside the initial job list is ever attempted.
C20_ShrinkingRetrySets ==
  /\ [](StartedClean =>
          /\ Range(country_codes) \subseteq Range(jobs0)
          /\ \A j \in JobUniverse : attempts[j] >= 1 => j \in Range(jobs0)
          /\ \A i \in DOMAIN procs : procs[i].job \in Range(jobs0))
  /\ [][StartedClean =>
          /\ Range(country_codes') \subseteq Range(country_codes)
          /\ Len(country_codes') <= Len(country_codes)]_vars

\* a clean start, and a retry round whose batch runs on a job list that is
\* shorter than the initial one
C20_Witness ==
  /\ StartedClean
  /\ rounds >= 2
  /\ pc = "join"
  /\ Len(country_codes) < Len(jobs0)
  /\ \E j \in Range(jobs0) : j \notin Range(country_codes)
====
